---------------------------- MODULE Spec2Model ----------------------------
(***************************************************************************)
(* A model of investment_alert.py: the import-time Telegram configuration, *)
(* the four fetchers, the scorer, the ticker-list loader, the notifier and *)
(* run_and_notify.                                                         *)
(*                                                                         *)
(* Python values are modelled as follows.                                  *)
(*   - a str the code works on is a tuple of one-character strings (so     *)
(*     strip, split and upper are computed character by character); an     *)
(*     unset environment variable (os.getenv returning None) is the tuple  *)
(*     NoEnv; a str the code only passes on is a TLA+ string;              *)
(*   - a dict is a record; the Python None that stands for a dict is the   *)
(*     record None;                                                        *)
(*   - a float is an exact fraction [n, d] with d > 0: the rounding error  *)
(*     of binary floating point is not modelled, a division by zero is;    *)
(*   - the outcome of a try body is [exc, val]: exc says that an exception *)
(*     left the body, val is the value returned otherwise.                 *)
(*                                                                         *)
(* Spec is a run of run_and_notify after the import of the module, with    *)
(* every answer of the network chosen freely.  SpecNotify is a call of     *)
(* send_telegram_message under every configuration.  SpecScore,            *)
(* SpecTickers, SpecPrice, SpecTable and SpecNews each call one function   *)
(* on every input of a bounded set.                                        *)
(***************************************************************************)
EXTENDS Integers, Sequences, FiniteSets, TLC

VARIABLES
    TELEGRAM_TOKEN,     \* os.getenv("TELEGRAM_TOKEN")
    TELEGRAM_CHAT_IDS,  \* os.getenv("TELEGRAM_CHAT_IDS", "")
    LANG,               \* os.getenv("APP_LANG", "en")
    CHAT_IDS,           \* the parsed recipient list
    bot,                \* the Bot object, or NoBot
    console,            \* what print has written, in order
    sent,               \* the bot.send_message calls made, in order
    pc,                 \* the control position
    ticker,             \* run_and_notify's parameter
    stock_data,         \* run_and_notify's locals
    filings,
    news,
    politician_trades,
    score,
    message,
    result,             \* what run_and_notify returned
    cid,                \* send_telegram_message's position in CHAT_IDS
    calls,              \* the functions called so far, in order
    failed,             \* for each fetch of run_and_notify: did the request raise
    args,               \* the arguments of a function called on its own
    ret                 \* what that function returned

vars == <<TELEGRAM_TOKEN, TELEGRAM_CHAT_IDS, LANG, CHAT_IDS, bot, console,
          sent, pc, ticker, stock_data, filings, news, politician_trades,
          score, message, result, cid, calls, failed, args, ret>>

\* The variables of the import-time configuration.
config == <<TELEGRAM_TOKEN, TELEGRAM_CHAT_IDS, LANG, CHAT_IDS, bot>>

\* The variables of run_and_notify's frame.
frame == <<ticker, stock_data, filings, news, politician_trades, score,
           message, result>>

-----------------------------------------------------------------------------
(* Values *)

None == [None |-> TRUE]

NoEnv == <<"<unset>">>

NoBot == [None |-> TRUE]

\* A str is truthy when it is neither None nor empty.
StrTruthy(s) == s # NoEnv /\ s # <<>>

\* All tuples over S of length at most n.
SeqUpTo(S, n) == UNION {[1..k -> S] : k \in 0..n}

Ok(v) == [exc |-> FALSE, val |-> v]

Raised == [exc |-> TRUE, val |-> None]

-----------------------------------------------------------------------------
(* Floats as exact fractions *)

Flt(k) == [n |-> k, d |-> 1]

Abs(k) == IF k < 0 THEN -k ELSE k

FltSub(a, b) == [n |-> a.n * b.d - b.n * a.d, d |-> a.d * b.d]

FltMul(a, b) == [n |-> a.n * b.n, d |-> a.d * b.d]

\* a / b for b # 0, the denominator kept positive.
FltDiv(a, b) ==
    [n |-> IF b.n < 0 THEN -(a.n * b.d) ELSE a.n * b.d, d |-> a.d * Abs(b.n)]

FltAbs(a) == [n |-> Abs(a.n), d |-> a.d]

FltGt(a, b) == a.n * b.d > b.n * a.d

FltEq(a, b) == a.n * b.d = b.n * a.d

-----------------------------------------------------------------------------
(* score_opportunity *)

\* dict.get(key, default)
DictGet(dict, key, default) ==
    IF key \in DOMAIN dict THEN dict[key] ELSE default

\* Mutant: the threshold test is >= 5 instead of > 5.
score_opportunity_ge(sd, filings_count, news_count, politician_trades_count) ==
    LET c == FltAbs(DictGet(sd, "change_pct", Flt(0)))
        s1 == IF sd # None /\ (FltGt(c, Flt(5)) \/ FltEq(c, Flt(5)))
              THEN 3 ELSE 0
        s2 == IF filings_count > 0 THEN s1 + filings_count * 2 ELSE s1
        s3 == IF news_count > 0 THEN s2 + news_count ELSE s2
        s4 == IF politician_trades_count > 0
              THEN s3 + politician_trades_count * 2 ELSE s3
    IN  s4

\* Mutant: score = news_count instead of score += news_count.
score_opportunity_assign(sd, filings_count, news_count, politician_trades_count) ==
    LET s1 == IF sd # None /\ FltGt(FltAbs(DictGet(sd, "change_pct", Flt(0))), Flt(5))
              THEN 3 ELSE 0
        s2 == IF filings_count > 0 THEN s1 + filings_count * 2 ELSE s1
        s3 == IF news_count > 0 THEN news_count ELSE s2
        s4 == IF politician_trades_count > 0
              THEN s3 + politician_trades_count * 2 ELSE s3
    IN  s4

score_opportunity(sd, filings_count, news_count, politician_trades_count) ==
    LET s0 == 0
        s1 == IF sd # None /\ FltGt(FltAbs(DictGet(sd, "change_pct", Flt(0))), Flt(5))
              THEN s0 + 3 ELSE s0
        s2 == IF filings_count > 0 THEN s1 + filings_count * 2 ELSE s1
        s3 == IF news_count > 0 THEN s2 + news_count ELSE s2
        s4 == IF politician_trades_count > 0
              THEN s3 + politician_trades_count * 2 ELSE s3
    IN  s4

-----------------------------------------------------------------------------
(* str methods *)

IsSpace(c) == c = " "

RECURSIVE LStrip(_)
LStrip(s) ==
    IF s # <<>> /\ IsSpace(Head(s)) THEN LStrip(Tail(s)) ELSE s

RECURSIVE RStrip(_)
RStrip(s) ==
    IF s # <<>> /\ IsSpace(s[Len(s)])
    THEN RStrip(SubSeq(s, 1, Len(s) - 1)) ELSE s

\* str.strip()
Strip(s) == RStrip(LStrip(s))

UpperChar(c) ==
    CASE c = "a" -> "A"
      [] c = "m" -> "M"
      [] OTHER -> c

\* str.upper()
Upper(s) == [i \in DOMAIN s |-> UpperChar(s[i])]

\* str.split(sep) for a one-character sep: the pieces between the separators,
\* empty pieces kept; "".split(",") is [""].
RECURSIVE SplitFrom(_, _, _)
SplitFrom(s, sep, piece) ==
    IF s = <<>> THEN <<piece>>
    ELSE IF Head(s) = sep THEN <<piece>> \o SplitFrom(Tail(s), sep, <<>>)
    ELSE SplitFrom(Tail(s), sep, Append(piece, Head(s)))

Split(s, sep) == SplitFrom(s, sep, <<>>)

\* [x.strip() for x in xs if x.strip()]
RECURSIVE StripNonBlank(_)
StripNonBlank(xs) ==
    IF xs = <<>> THEN <<>>
    ELSE (IF Strip(Head(xs)) # <<>> THEN <<Strip(Head(xs))>> ELSE <<>>)
         \o StripNonBlank(Tail(xs))

\* [x.upper() for x in xs]
UpperAll(xs) == [i \in DOMAIN xs |-> Upper(xs[i])]

Min(a, b) == IF a < b THEN a ELSE b

Max(a, b) == IF a > b THEN a ELSE b

\* xs[:k] for an int k (a negative k counts from the end).
SliceTo(xs, k) ==
    IF k >= 0 THEN SubSeq(xs, 1, Min(k, Len(xs)))
    ELSE SubSeq(xs, 1, Max(0, Len(xs) + k))

\* Mutant: the exception is logged and raised again.
Except_reraise(body, default, label) ==
    IF body.exc
    THEN [exc |-> TRUE, val |-> default, out |-> <<[text |-> label]>>]
    ELSE [exc |-> FALSE, val |-> body.val, out |-> <<>>]

\* The except clause of a fetcher: log and return the default.
Except(body, default, label) ==
    IF body.exc
    THEN [exc |-> FALSE, val |-> default, out |-> <<[text |-> label]>>]
    ELSE [exc |-> FALSE, val |-> body.val, out |-> <<>>]

-----------------------------------------------------------------------------
(* load_tickers *)

\* An optional int is <<>> (None) or <<k>>.
NoLimit == <<>>

\* if limit: neither None nor 0.
LimitTruthy(limit) == limit # NoLimit /\ limit[1] # 0

DEFAULT_TICKERS == << <<"M", "S", "F", "T">>, <<"A", "A", "P", "L">>,
                      <<"N", "V", "D", "A">> >>

\* Mutant: an empty list of lines gives the default list too.
load_tickers_try_or_default(file, limit) ==
    IF ~file.exists THEN Raised
    ELSE LET lines == UpperAll(StripNonBlank(file.lines))
         IN  IF lines = <<>> THEN Ok(DEFAULT_TICKERS)
             ELSE Ok(IF LimitTruthy(limit) THEN SliceTo(lines, limit[1]) ELSE lines)

\* file: [exists, lines]; open raises when the file does not exist.  A line
\* is held without its line terminator, which strip would remove.
load_tickers_try(file, limit) ==
    IF ~file.exists THEN Raised
    ELSE LET lines == UpperAll(StripNonBlank(file.lines))
         IN  Ok(IF LimitTruthy(limit) THEN SliceTo(lines, limit[1]) ELSE lines)

load_tickers(file, limit) ==
    Except(load_tickers_try(file, limit), DEFAULT_TICKERS, "load_tickers error:")

-----------------------------------------------------------------------------
(* get_stock_price *)

\* Mutant: the change is divided by today's close.
get_stock_price_try_today(tk, resp) ==
    IF resp.raises THEN Raised
    ELSE LET hist == resp.closes IN
         IF Len(hist) < 2 THEN Ok(None)
         ELSE LET today_close == Flt(hist[Len(hist)])
                  yesterday_close == Flt(hist[Len(hist) - 1])
              IN  IF today_close.n = 0 THEN Raised
                  ELSE Ok([ticker |-> Upper(tk),
                           today_close |-> today_close,
                           yesterday_close |-> yesterday_close,
                           change_pct |->
                               FltMul(FltDiv(FltSub(today_close, yesterday_close),
                                             today_close),
                                      Flt(100))])

\* resp: [raises, closes]: what yfinance answers, raises for a network
\* error, closes the Close column of the history (empty for an unknown
\* ticker).
get_stock_price_try(tk, resp) ==
    IF resp.raises THEN Raised
    ELSE LET hist == resp.closes IN
         IF Len(hist) < 2 THEN Ok(None)
         ELSE LET today_close == Flt(hist[Len(hist)])
                  yesterday_close == Flt(hist[Len(hist) - 1])
              IN  \* float division by zero raises ZeroDivisionError
                  IF yesterday_close.n = 0 THEN Raised
                  ELSE Ok([ticker |-> Upper(tk),
                           today_close |-> today_close,
                           yesterday_close |-> yesterday_close,
                           change_pct |->
                               FltMul(FltDiv(FltSub(today_close, yesterday_close),
                                             yesterday_close),
                                      Flt(100))])

get_stock_price(tk, resp) ==
    Except(get_stock_price_try(tk, resp), None, "get_stock_price error:")

-----------------------------------------------------------------------------
(* get_recent_13f_filings, get_recent_politician_trades *)

\* The td cells a row must have to be read: len(cols) < 5 skips it.
COLS == 5

\* "https://www.sec.gov", kept as one token of a str.
SEC_ORIGIN == <<"https://www.sec.gov">>

\* cols[1].find('a') is NoTag, or a tag: a record of the tag's attributes.
NoTag == [None |-> TRUE]

\* The record made of one row; the two functions name the second field
\* differently.
ScrapedRecord(type, date, name, link) ==
    IF type = "13F-HR"
    THEN [date |-> date, company |-> name, link |-> link]
    ELSE [date |-> date, filer |-> name, link |-> link]

\* Mutant: a short row ends the loop (break) instead of being skipped.
RECURSIVE ScrapeRows_break(_, _)
ScrapeRows_break(rows, type) ==
    IF rows = <<>> THEN Ok(<<>>)
    ELSE LET cols == Head(rows) IN
         IF Len(cols) < COLS THEN Ok(<<>>)
         ELSE LET link_tag == cols[2].a
              IN  IF link_tag # NoTag /\ "href" \notin DOMAIN link_tag
                  THEN Raised
                  ELSE LET filing_link == IF link_tag # NoTag
                                          THEN SEC_ORIGIN \o link_tag.href
                                          ELSE <<>>
                           rest == ScrapeRows_break(Tail(rows), type)
                       IN  IF rest.exc THEN Raised
                           ELSE Ok(<<ScrapedRecord(type, Strip(cols[4].text),
                                                   Strip(cols[2].text),
                                                   filing_link)>> \o rest.val)

\* The for loop over the rows.  A row is the tuple of its td cells, a cell is
\* [text, a].  cols[3] and cols[1] are the cells 4 and 2 here (tuples start
\* at 1).  link_tag['href'] raises KeyError for a tag without that
\* attribute, and the exception leaves the loop.
RECURSIVE ScrapeRows(_, _)
ScrapeRows(rows, type) ==
    IF rows = <<>> THEN Ok(<<>>)
    ELSE LET cols == Head(rows) IN
         IF Len(cols) < COLS THEN ScrapeRows(Tail(rows), type)
         ELSE LET date_filed == Strip(cols[4].text)
                  name == Strip(cols[2].text)
                  link_tag == cols[2].a
              IN  IF link_tag # NoTag /\ "href" \notin DOMAIN link_tag
                  THEN Raised
                  ELSE LET filing_link == IF link_tag # NoTag
                                          THEN SEC_ORIGIN \o link_tag.href
                                          ELSE <<>>
                           rest == ScrapeRows(Tail(rows), type)
                       IN  IF rest.exc THEN Raised
                           ELSE Ok(<<ScrapedRecord(type, date_filed, name,
                                                   filing_link)>> \o rest.val)

\* xs[1:]
SliceFrom1(xs) == IF xs = <<>> THEN <<>> ELSE Tail(xs)

\* resp: [raises, rows]: requests.get raises, or the page's tr rows in
\* document order.
get_recent_13f_filings_try(resp) ==
    IF resp.raises THEN Raised
    ELSE ScrapeRows(SliceFrom1(resp.rows), "13F-HR")

get_recent_13f_filings(resp) ==
    Except(get_recent_13f_filings_try(resp), <<>>,
           "get_recent_13f_filings error:")

get_recent_politician_trades_try(resp) ==
    IF resp.raises THEN Raised
    ELSE ScrapeRows(SliceFrom1(resp.rows), "form4")

get_recent_politician_trades(resp) ==
    Except(get_recent_politician_trades_try(resp), <<>>,
           "get_recent_politician_trades error:")

-----------------------------------------------------------------------------
(* get_google_news_rss *)

\* The for loop over the entries.  An entry is a record of the fields the
\* feed gave it; entry.title and entry.link raise AttributeError when the
\* field is missing.
RECURSIVE NewsItems(_)
NewsItems(entries) ==
    IF entries = <<>> THEN Ok(<<>>)
    ELSE LET entry == Head(entries) IN
         IF "title" \notin DOMAIN entry \/ "link" \notin DOMAIN entry
         THEN Raised
         ELSE LET rest == NewsItems(Tail(entries))
              IN  IF rest.exc THEN Raised
                  ELSE Ok(<<[title |-> entry.title, link |-> entry.link,
                             published |-> DictGet(entry, "published", "")]>>
                          \o rest.val)

\* Mutant: the slice takes one entry too many.
get_google_news_rss_try_more(query, max_items, resp) ==
    IF resp.raises THEN Raised
    ELSE NewsItems(SliceTo(resp.entries, max_items + 1))

\* resp: [raises, entries]: feedparser.parse raises, or feed.entries.
get_google_news_rss_try(query, max_items, resp) ==
    IF resp.raises THEN Raised
    ELSE NewsItems(SliceTo(resp.entries, max_items))

get_google_news_rss(query, max_items, resp) ==
    Except(get_google_news_rss_try(query, max_items, resp), <<>>,
           "get_google_news_rss error:")

\* max_items=5
DEFAULT_MAX_ITEMS == 5

-----------------------------------------------------------------------------
(* The import-time configuration *)

\* [c.strip() for c in TELEGRAM_CHAT_IDS.split(",") if c.strip()]
ParseChatIds(s) == StripNonBlank(Split(s, ","))

\* Mutant: the bot is made whenever there is a token.
MakeBot_token_only(token, chat_ids) ==
    IF StrTruthy(token) THEN [token |-> token] ELSE NoBot

\* bot = None; if TELEGRAM_TOKEN and CHAT_IDS: bot = Bot(token=TELEGRAM_TOKEN)
MakeBot(token, chat_ids) ==
    IF StrTruthy(token) /\ chat_ids # <<>> THEN [token |-> token] ELSE NoBot

-----------------------------------------------------------------------------
(* The inputs of the functions called on their own *)

MaxCount == 3

MaxChangeNum == 15

MaxChangeDen == 2

ScoreCounts == 0..MaxCount

ChangePcts ==
    {[n |-> k, d |-> q] : k \in -MaxChangeNum..MaxChangeNum, q \in 1..MaxChangeDen}

\* None, a dict with a change_pct, and a dict without one.
ScoreStockData ==
    {None} \cup {[ticker |-> <<"M">>, change_pct |-> c] : c \in ChangePcts}
           \cup {[ticker |-> <<"M">>]}

MaxLineLen == 2

MaxLines == 2

MaxLimit == 2

TickerLines == SeqUpTo({" ", "a"}, MaxLineLen)

TickerFiles ==
    {[exists |-> FALSE, lines |-> <<>>]}
    \cup {[exists |-> TRUE, lines |-> ls] : ls \in SeqUpTo(TickerLines, MaxLines)}

Limits == {NoLimit} \cup {<<k>> : k \in 0..MaxLimit}

BaseClose == 20

CloseSpread == 2

MaxHist == 3

\* Closing prices: 0 and the prices around BaseClose.
Closes == {0} \cup {BaseClose + k : k \in -CloseSpread..CloseSpread}

FetchError == [raises |-> TRUE]

PriceResponses(S, n) ==
    {FetchError} \cup {[raises |-> FALSE, closes |-> h] : h \in SeqUpTo(S, n)}

Tickers == {<<"m">>, <<"M">>}

MaxRows == 4

NameTexts == {<<"A">>, <<" ", "B">>}

DateText == <<"d", " ">>

Anchors == {NoTag, [href |-> <<"/x">>], [name |-> "n"]}

\* A row of k cells: the name cell is the second, the date cell the fourth.
Row(k, nm, an) ==
    [i \in 1..k |-> CASE i = 2 -> [text |-> nm, a |-> an]
                      [] i = 4 -> [text |-> DateText, a |-> NoTag]
                      [] OTHER -> [text |-> <<>>, a |-> NoTag]]

ColCounts == {COLS - 1, COLS, COLS + 1}

\* Every row of COLS cells, and the shorter and the longer rows of one name.
Rows ==
    {Row(COLS, nm, an) : nm \in NameTexts, an \in Anchors}
    \cup {Row(k, <<"A">>, an) : k \in ColCounts \ {COLS}, an \in Anchors}

PageResponses(R, n) ==
    {FetchError} \cup {[raises |-> FALSE, rows |-> t] : t \in SeqUpTo(R, n)}

MaxFeed == 3

MaxItems == 3

Titles == {"T1", "T2"}

\* Entries with every field, without published, without title, without link.
Entries ==
    {[title |-> t, link |-> "L", published |-> "P"] : t \in Titles}
    \cup {[title |-> t, link |-> "L"] : t \in Titles}
    \cup {[link |-> "L", published |-> "P"]}
    \cup {[title |-> t, published |-> "P"] : t \in Titles}

FeedResponses(E, n) ==
    {FetchError} \cup {[raises |-> FALSE, entries |-> f] : f \in SeqUpTo(E, n)}

-----------------------------------------------------------------------------
(* A function called on its own: pc goes from "call" to "return" *)

NoConfig ==
    /\ TELEGRAM_TOKEN = NoEnv
    /\ TELEGRAM_CHAT_IDS = <<>>
    /\ LANG = "en"
    /\ CHAT_IDS = ParseChatIds(TELEGRAM_CHAT_IDS)
    /\ bot = MakeBot(TELEGRAM_TOKEN, CHAT_IDS)

NoFrame ==
    /\ ticker = <<>>
    /\ stock_data = None
    /\ filings = <<>>
    /\ news = <<>>
    /\ politician_trades = <<>>
    /\ score = 0
    /\ message = None
    /\ result = None
    /\ cid = 0
    /\ failed = <<>>

InitCall(inputs) ==
    /\ NoConfig
    /\ NoFrame
    /\ console = <<>>
    /\ sent = <<>>
    /\ calls = <<>>
    /\ pc = "call"
    /\ args \in inputs
    /\ ret = None

\* The function named fn returns r = [exc, val, out].
Returns(fn, r) ==
    /\ pc = "call"
    /\ pc' = IF r.exc THEN "raised" ELSE "return"
    /\ ret' = r.val
    /\ console' = console \o r.out
    /\ calls' = Append(calls, fn)
    /\ UNCHANGED <<config, frame, cid, sent, failed, args>>

Call_score_opportunity ==
    Returns("score_opportunity",
            [exc |-> FALSE, out |-> <<>>,
             val |-> score_opportunity(args.stock_data, args.filings_count,
                                       args.news_count,
                                       args.politician_trades_count)])

InitScore ==
    InitCall([stock_data : ScoreStockData, filings_count : ScoreCounts,
              news_count : ScoreCounts, politician_trades_count : ScoreCounts])

SpecScore == InitScore /\ [][Call_score_opportunity]_vars

Call_load_tickers == Returns("load_tickers", load_tickers(args.file, args.limit))

InitTickers == InitCall([file : TickerFiles, limit : Limits])

SpecTickers == InitTickers /\ [][Call_load_tickers]_vars

Call_get_stock_price ==
    Returns("get_stock_price", get_stock_price(args.ticker, args.resp))

InitPrice ==
    InitCall([ticker : Tickers, resp : PriceResponses(Closes, MaxHist)])

SpecPrice == InitPrice /\ [][Call_get_stock_price]_vars

Call_get_recent_13f_filings ==
    Returns("get_recent_13f_filings", get_recent_13f_filings(args.resp))

Call_get_recent_politician_trades ==
    Returns("get_recent_politician_trades",
            get_recent_politician_trades(args.resp))

InitTable == InitCall([resp : PageResponses(Rows, MaxRows)])

NextTable == Call_get_recent_13f_filings \/ Call_get_recent_politician_trades

SpecTable == InitTable /\ [][NextTable]_vars

Call_get_google_news_rss ==
    Returns("get_google_news_rss",
            get_google_news_rss(args.query, args.max_items, args.resp))

InitNews ==
    InitCall([query : {"MSFT"}, max_items : 0..MaxItems,
              resp : FeedResponses(Entries, MaxFeed)])

SpecNews == InitNews /\ [][Call_get_google_news_rss]_vars

-----------------------------------------------------------------------------
(* send_telegram_message *)

\* send_telegram_message(message) is entered: if not bot, print and return.
SendEnter ==
    /\ pc = "send"
    /\ calls' = Append(calls, "send_telegram_message")
    /\ IF bot = NoBot
       THEN /\ console' = Append(console, [text |-> "Telegram not configured:",
                                           message |-> message])
            /\ pc' = "sent"
            /\ cid' = cid
       ELSE /\ console' = console
            /\ pc' = "send_loop"
            /\ cid' = 1
    /\ UNCHANGED <<config, frame, sent, failed, args, ret>>

\* Mutant: the try is around the loop, so a failed send ends it.
SendNext_stop ==
    /\ pc = "send_loop"
    /\ cid <= Len(CHAT_IDS)
    /\ \E ok \in BOOLEAN :
          /\ sent' = Append(sent, [chat_id |-> CHAT_IDS[cid], text |-> message,
                                   ok |-> ok])
          /\ console' = IF ok THEN console
                        ELSE Append(console, [text |-> "Failed to send to",
                                              chat_id |-> CHAT_IDS[cid]])
          /\ pc' = IF ok THEN "send_loop" ELSE "sent"
    /\ cid' = cid + 1
    /\ UNCHANGED <<config, frame, calls, failed, args, ret>>

\* One turn of the for loop: bot.send_message to CHAT_IDS[cid] succeeds or
\* raises; the except clause logs the failure and the loop goes on.
SendNext ==
    /\ pc = "send_loop"
    /\ cid <= Len(CHAT_IDS)
    /\ \E ok \in BOOLEAN :
          /\ sent' = Append(sent, [chat_id |-> CHAT_IDS[cid], text |-> message,
                                   ok |-> ok])
          /\ console' = IF ok THEN console
                        ELSE Append(console, [text |-> "Failed to send to",
                                              chat_id |-> CHAT_IDS[cid]])
    /\ cid' = cid + 1
    /\ pc' = "send_loop"
    /\ UNCHANGED <<config, frame, calls, failed, args, ret>>

\* The for loop is over: the function returns.
SendEnd ==
    /\ pc = "send_loop"
    /\ cid > Len(CHAT_IDS)
    /\ pc' = "sent"
    /\ UNCHANGED <<config, frame, console, sent, cid, calls, failed, args, ret>>

MaxIdsLen == 5

Tokens == {NoEnv, <<>>, <<"t">>}

ChatIdStrings == SeqUpTo({",", " ", "1", "2"}, MaxIdsLen)

\* The message of a call of send_telegram_message on its own.
TestMessage == [text |-> "hello"]

\* The module is imported with some configuration, then
\* send_telegram_message(TestMessage) is called.
InitNotify ==
    /\ TELEGRAM_TOKEN \in Tokens
    /\ TELEGRAM_CHAT_IDS \in ChatIdStrings
    /\ LANG = "en"
    /\ CHAT_IDS = ParseChatIds(TELEGRAM_CHAT_IDS)
    /\ bot = MakeBot(TELEGRAM_TOKEN, CHAT_IDS)
    /\ ticker = <<>>
    /\ stock_data = None
    /\ filings = <<>>
    /\ news = <<>>
    /\ politician_trades = <<>>
    /\ score = 0
    /\ message = TestMessage
    /\ result = None
    /\ cid = 0
    /\ failed = <<>>
    /\ console = <<>>
    /\ sent = <<>>
    /\ calls = <<>>
    /\ pc = "send"
    /\ args = None
    /\ ret = None

NextNotify == SendEnter \/ SendNext \/ SendEnd

SpecNotify == InitNotify /\ [][NextNotify]_vars

-----------------------------------------------------------------------------
(* run_and_notify *)

\* format(x, ".2f"): the hundredths nearest to |x| (a tie goes to the even
\* one) and the sign.
Format2f(x) ==
    LET a == Abs(x.n) * 100
        q == a \div x.d
        r == a % x.d
    IN  [neg |-> x.n < 0,
         hundredths |-> IF 2 * r > x.d \/ (2 * r = x.d /\ q % 2 = 1)
                        THEN q + 1 ELSE q]

\* The message: its language, the ticker, the price line (None for "No price
\* data"), the line of the three counts and the score line.
BuildMessage(lang, tk, sd, n13f, nnews, ntrades, sc) ==
    [lang |-> IF lang = "he" THEN "he" ELSE "en",
     ticker |-> tk,
     price |-> IF sd # None
               THEN [today_close |-> sd.today_close,
                     change |-> Format2f(sd.change_pct)]
               ELSE None,
     f13 |-> n13f,
     news |-> nnews,
     trades |-> ntrades,
     score |-> sc]

RunMaxHist == 2

RunMaxRows == 2

RunMaxFeed == 1

RunCloses == {0, BaseClose, BaseClose + CloseSpread}

RunRows ==
    {Row(k, <<"A">>, an) : k \in {COLS - 1, COLS}, an \in {NoTag, [name |-> "n"]}}

RunEntries == {[title |-> "T1", link |-> "L"], [link |-> "L", published |-> "P"]}

\* One fetch of run_and_notify: r = [exc, val, out] is what the fetcher
\* returned, raised says whether its request raised.
Fetched(fn, r, raised, next) ==
    /\ calls' = Append(calls, fn)
    /\ failed' = Append(failed, raised)
    /\ console' = console \o r.out
    /\ pc' = IF r.exc THEN "raised" ELSE next
    /\ UNCHANGED <<config, ticker, score, message, result, cid, sent, args, ret>>

RunPrice ==
    /\ pc = "run"
    /\ \E resp \in PriceResponses(RunCloses, RunMaxHist) :
          LET r == get_stock_price(ticker, resp) IN
          /\ stock_data' = r.val
          /\ Fetched("get_stock_price", r, resp.raises, "run_filings")
    /\ UNCHANGED <<filings, news, politician_trades>>

\* Mutant: the news fetch is left out.
RunFilings_skip ==
    /\ pc = "run_filings"
    /\ \E resp \in PageResponses(RunRows, RunMaxRows) :
          LET r == get_recent_13f_filings(resp) IN
          /\ filings' = r.val
          /\ Fetched("get_recent_13f_filings", r, resp.raises, "run_trades")
    /\ UNCHANGED <<stock_data, news, politician_trades>>

RunFilings ==
    /\ pc = "run_filings"
    /\ \E resp \in PageResponses(RunRows, RunMaxRows) :
          LET r == get_recent_13f_filings(resp) IN
          /\ filings' = r.val
          /\ Fetched("get_recent_13f_filings", r, resp.raises, "run_news")
    /\ UNCHANGED <<stock_data, news, politician_trades>>

RunNews ==
    /\ pc = "run_news"
    /\ \E resp \in FeedResponses(RunEntries, RunMaxFeed) :
          LET r == get_google_news_rss(ticker, DEFAULT_MAX_ITEMS, resp) IN
          /\ news' = r.val
          /\ Fetched("get_google_news_rss", r, resp.raises, "run_trades")
    /\ UNCHANGED <<stock_data, filings, politician_trades>>

RunTrades ==
    /\ pc = "run_trades"
    /\ \E resp \in PageResponses(RunRows, RunMaxRows) :
          LET r == get_recent_politician_trades(resp) IN
          /\ politician_trades' = r.val
          /\ Fetched("get_recent_politician_trades", r, resp.raises, "run_score")
    /\ UNCHANGED <<stock_data, filings, news>>

RunScore ==
    /\ pc = "run_score"
    /\ score' = score_opportunity(stock_data, Len(filings), Len(news),
                                  Len(politician_trades))
    /\ calls' = Append(calls, "score_opportunity")
    /\ pc' = "run_message"
    /\ UNCHANGED <<config, ticker, stock_data, filings, news, politician_trades,
                   message, result, cid, console, sent, failed, args, ret>>

RunMessage ==
    /\ pc = "run_message"
    /\ message' = BuildMessage(LANG, ticker, stock_data, Len(filings), Len(news),
                               Len(politician_trades), score)
    /\ pc' = "send"
    /\ UNCHANGED <<config, ticker, stock_data, filings, news, politician_trades,
                   score, result, cid, console, sent, calls, failed, args, ret>>

\* return {"ticker": ticker, "score": score}
RunReturn ==
    /\ pc = "sent"
    /\ result' = [ticker |-> ticker, score |-> score]
    /\ pc' = "done"
    /\ UNCHANGED <<config, ticker, stock_data, filings, news, politician_trades,
                   score, message, cid, console, sent, calls, failed, args, ret>>

\* The module is imported with some configuration, then run_and_notify() is
\* called with its default ticker.
Init ==
    /\ TELEGRAM_TOKEN \in {NoEnv, <<"t">>}
    /\ TELEGRAM_CHAT_IDS \in {<<>>, <<"1", ",", "2">>}
    /\ LANG \in {"en", "he"}
    /\ CHAT_IDS = ParseChatIds(TELEGRAM_CHAT_IDS)
    /\ bot = MakeBot(TELEGRAM_TOKEN, CHAT_IDS)
    /\ ticker = <<"M", "S", "F", "T">>
    /\ stock_data = None
    /\ filings = <<>>
    /\ news = <<>>
    /\ politician_trades = <<>>
    /\ score = 0
    /\ message = None
    /\ result = None
    /\ cid = 0
    /\ failed = <<>>
    /\ console = <<>>
    /\ sent = <<>>
    /\ calls = <<>>
    /\ pc = "run"
    /\ args = None
    /\ ret = None

Next ==
    \/ RunPrice
    \/ RunFilings
    \/ RunNews
    \/ RunTrades
    \/ RunScore
    \/ RunMessage
    \/ SendEnter
    \/ SendNext
    \/ SendEnd
    \/ RunReturn

Spec == Init /\ [][Next]_vars

-----------------------------------------------------------------------------
(* Claims about score_opportunity, under SpecScore *)

\* |change_pct| > 5, stated on the fraction.
AbsAbove5(c) == c.n > 5 * c.d \/ c.n < -(5 * c.d)

\* The price term of the score: 3 for a present stock_data whose
\* |change_pct| > 5, else 0.
PriceTerm(sd) ==
    IF sd # None /\ "change_pct" \in DOMAIN sd /\ AbsAbove5(sd.change_pct)
    THEN 3 ELSE 0

\* C1: for stock_data absent or carrying a change_pct and non-negative counts,
\* the score is 3 (if stock_data is present and |change_pct| > 5, else 0)
\* + 2*filings_count + news_count + 2*politician_trades_count; it is never
\* negative.
C1_ScoreFormula ==
    pc = "return" =>
        /\ ret >= 0
        /\ (args.stock_data = None \/ "change_pct" \in DOMAIN args.stock_data) =>
              ret = PriceTerm(args.stock_data) + 2 * args.filings_count
                    + args.news_count + 2 * args.politician_trades_count

\* The spec's example: change_pct = -7.5, no filings, 2 news, no trades: 5.
C1_Witness ==
    /\ pc = "return"
    /\ args.stock_data # None
    /\ "change_pct" \in DOMAIN args.stock_data
    /\ args.stock_data.change_pct = [n |-> -15, d |-> 2]
    /\ args.filings_count = 0
    /\ args.news_count = 2
    /\ args.politician_trades_count = 0
    /\ ret = 5

\* C6: with the other inputs fixed, a larger filings_count, news_count or
\* politician_trades_count never gives a lower score, and neither does a
\* change_pct with |change_pct| > 5 in place of one with |change_pct| <= 5.
C6_Monotonic ==
    pc = "return" =>
        /\ \A k \in ScoreCounts :
              /\ k >= args.filings_count =>
                    score_opportunity(args.stock_data, k, args.news_count,
                                      args.politician_trades_count) >= ret
              /\ k >= args.news_count =>
                    score_opportunity(args.stock_data, args.filings_count, k,
                                      args.politician_trades_count) >= ret
              /\ k >= args.politician_trades_count =>
                    score_opportunity(args.stock_data, args.filings_count,
                                      args.news_count, k) >= ret
        /\ \A c \in ChangePcts :
              ( /\ args.stock_data # None
                /\ "change_pct" \in DOMAIN args.stock_data
                /\ ~AbsAbove5(args.stock_data.change_pct)
                /\ AbsAbove5(c) ) =>
                    score_opportunity([args.stock_data EXCEPT !.change_pct = c],
                                      args.filings_count, args.news_count,
                                      args.politician_trades_count) >= ret

\* A score under the threshold with room to grow in every input.
C6_Witness ==
    /\ pc = "return"
    /\ args.stock_data # None
    /\ "change_pct" \in DOMAIN args.stock_data
    /\ args.stock_data.change_pct = [n |-> 5, d |-> 1]
    /\ args.filings_count = 1
    /\ args.news_count = 1
    /\ args.politician_trades_count = 1
    /\ ret = 5
    /\ score_opportunity([args.stock_data EXCEPT !.change_pct = [n |-> 11, d |-> 2]],
                         2, 2, 2) = 13

-----------------------------------------------------------------------------
(* Claims about load_tickers, under SpecTickers *)

\* The file is empty or holds only blank lines.
OnlyBlankLines(file) ==
    \A i \in DOMAIN file.lines :
        \A j \in DOMAIN file.lines[i] : file.lines[i][j] = " "

\* C2 as stated: the default list is returned when the file is missing and
\* also when it exists but is empty or holds only blank lines.
C2_Original ==
    (pc = "return" /\ (~args.file.exists \/ OnlyBlankLines(args.file))) =>
        ret = DEFAULT_TICKERS

\* C2 as amended: the default list is returned when the file is missing (the
\* read fails); a file that exists but is empty or holds only blank lines
\* gives the empty list.
C2_Amended ==
    pc = "return" =>
        /\ ~args.file.exists =>
              /\ ret = DEFAULT_TICKERS
              /\ console = <<[text |-> "load_tickers error:"]>>
        /\ (args.file.exists /\ OnlyBlankLines(args.file)) =>
              /\ ret = <<>>
              /\ console = <<>>

C2_Witness ==
    /\ pc = "return"
    /\ args.file.exists
    /\ args.file.lines = << <<" ">>, <<>> >>
    /\ ret = <<>>

-----------------------------------------------------------------------------
(* Claims about get_stock_price, under SpecPrice *)

LastClose(resp) == resp.closes[Len(resp.closes)]

PriorClose(resp) == resp.closes[Len(resp.closes) - 1]

\* ret is the snapshot of the last two closes t and y (y # 0), with
\* change_pct = (t - y) / y * 100.
IsSnapshot(r, t, y) ==
    /\ r # None
    /\ r.today_close = Flt(t)
    /\ r.yesterday_close = Flt(y)
    /\ r.change_pct.d # 0
    /\ r.change_pct.n * y = (t - y) * 100 * r.change_pct.d

\* C8 as stated: the absence marker for fewer than 2 closes and on a fetch
\* error; for every history of at least 2 closes a snapshot of the latest
\* close, the one before it and change_pct = (today - yesterday) / yesterday
\* * 100.
C8_Original ==
    pc = "return" =>
        /\ (args.resp.raises \/ Len(args.resp.closes) < 2) => ret = None
        /\ (~args.resp.raises /\ Len(args.resp.closes) >= 2) =>
              /\ PriorClose(args.resp) # 0
              /\ IsSnapshot(ret, LastClose(args.resp), PriorClose(args.resp))

\* C8 as amended: as stated for the histories whose close before the latest
\* is not 0; when that close is 0 the division fails and the absence marker
\* is returned.
C8_Amended ==
    pc = "return" =>
        /\ (args.resp.raises \/ Len(args.resp.closes) < 2) => ret = None
        /\ (~args.resp.raises /\ Len(args.resp.closes) >= 2) =>
              IF PriorClose(args.resp) = 0
              THEN /\ ret = None
                   /\ console = <<[text |-> "get_stock_price error:"]>>
              ELSE /\ IsSnapshot(ret, LastClose(args.resp), PriorClose(args.resp))
                   /\ console = <<>>

\* Three closes, the last two 20 and 21: a change of 5 percent.
C8_Witness ==
    /\ pc = "return"
    /\ ~args.resp.raises
    /\ args.resp.closes = <<22, 20, 21>>
    /\ ret # None
    /\ ret.today_close = Flt(21)
    /\ ret.yesterday_close = Flt(20)
    /\ FltEq(ret.change_pct, Flt(5))

-----------------------------------------------------------------------------
(* Claims about the two scrapers, under SpecTable *)

HasCols(row) == Len(row) >= 5

\* The rows after the first that have at least 5 columns, in table order.
LongRows(resp) == SelectSeq(SubSeq(resp.rows, 2, Len(resp.rows)), HasCols)

HasHref(cell) == cell.a # NoTag /\ "href" \in DOMAIN cell.a

\* The site origin before the hyperlink of the cell, or empty without one.
LinkOf(cell) == IF HasHref(cell) THEN SEC_ORIGIN \o cell.a.href ELSE <<>>

\* One record per row of LongRows, in that order.
RecordsOf(resp, fn) ==
    LET long == LongRows(resp) IN
    [i \in 1..Len(long) |->
        IF fn = "get_recent_13f_filings"
        THEN [date |-> Strip(long[i][4].text), company |-> Strip(long[i][2].text),
              link |-> LinkOf(long[i][2])]
        ELSE [date |-> Strip(long[i][4].text), filer |-> Strip(long[i][2].text),
              link |-> LinkOf(long[i][2])]]

\* Some row of LongRows has in column 1 an anchor without an href.
AnchorWithoutHref(resp) ==
    \E i \in 1..Len(LongRows(resp)) :
        LET cell == LongRows(resp)[i][2] IN cell.a # NoTag /\ ~HasHref(cell)

\* C7 as stated: for every fetched table both functions return one record per
\* row after the first that has at least 5 columns, in table order, the
\* shorter rows skipped; a record's link is the site origin before the
\* hyperlink of column 1, or empty when the cell has no hyperlink.
C7_Original ==
    (pc = "return" /\ ~args.resp.raises) =>
        /\ Len(ret) = Len(LongRows(args.resp))
        /\ ret = RecordsOf(args.resp, calls[1])

\* C7 as amended: as stated for the tables in which no row of at least 5
\* columns has in column 1 an anchor without an href; a table with such an
\* anchor gives the empty sequence, like a failed fetch.
C7_Amended ==
    pc = "return" =>
        IF args.resp.raises \/ AnchorWithoutHref(args.resp)
        THEN /\ ret = <<>>
             /\ Len(console) = 1
        ELSE /\ Len(ret) = Len(LongRows(args.resp))
             /\ ret = RecordsOf(args.resp, calls[1])
             /\ console = <<>>

\* A short row (its anchor without an href) between two rows that are read.
C7_Witness ==
    /\ pc = "return"
    /\ calls = <<"get_recent_politician_trades">>
    /\ ~args.resp.raises
    /\ args.resp.rows = <<Row(5, <<"A">>, NoTag),
                          Row(5, <<"A">>, [href |-> <<"/x">>]),
                          Row(4, <<"A">>, [name |-> "n"]),
                          Row(5, <<" ", "B">>, NoTag)>>
    /\ ret = <<[date |-> <<"d">>, filer |-> <<"A">>,
                link |-> <<"https://www.sec.gov", "/x">>],
               [date |-> <<"d">>, filer |-> <<"B">>, link |-> <<>>]>>

-----------------------------------------------------------------------------
(* Claims about get_google_news_rss, under SpecNews *)

\* The number of leading entries the call reads.
Leading(a) == IF a.max_items < Len(a.resp.entries)
              THEN a.max_items ELSE Len(a.resp.entries)

\* The fetch fails, or one of the entries read has no title or no link.
NewsFails(a) ==
    \/ a.resp.raises
    \/ \E i \in 1..Leading(a) :
          ~({"title", "link"} \subseteq DOMAIN a.resp.entries[i])

\* C10: for every feed and every max_items (a count, 0 or more) the records
\* returned are at most max_items, the leading entries of the feed in feed
\* order (all of them when the feed has fewer); an entry without a published
\* field gets the empty string; any failure gives the empty sequence.
C10_LeadingEntries ==
    pc = "return" =>
        /\ Len(ret) <= args.max_items
        /\ IF NewsFails(args)
           THEN /\ ret = <<>>
                /\ console = <<[text |-> "get_google_news_rss error:"]>>
           ELSE /\ Len(ret) = Leading(args)
                /\ console = <<>>
                /\ \A i \in 1..Len(ret) :
                      LET e == args.resp.entries[i] IN
                      /\ ret[i].title = e.title
                      /\ ret[i].link = e.link
                      /\ ret[i].published =
                            IF "published" \in DOMAIN e THEN e.published ELSE ""

\* Three entries, two asked for; the second has no published field and the
\* third, which is not read, has no title.
C10_Witness ==
    /\ pc = "return"
    /\ args.max_items = 2
    /\ args.resp = [raises |-> FALSE,
                    entries |-> <<[title |-> "T2", link |-> "L", published |-> "P"],
                                  [title |-> "T1", link |-> "L"],
                                  [link |-> "L", published |-> "P"]>>]
    /\ ret = <<[title |-> "T2", link |-> "L", published |-> "P"],
               [title |-> "T1", link |-> "L", published |-> ""]>>

-----------------------------------------------------------------------------
(* Claims about send_telegram_message, under SpecNotify *)

\* The recipient string holds nothing but commas and whitespace.
OnlyCommasAndSpaces(str) == \A i \in DOMAIN str : str[i] \in {",", " "}

\* The credential is missing, or no recipient is configured.
Unconfigured ==
    \/ TELEGRAM_TOKEN = NoEnv
    \/ TELEGRAM_TOKEN = <<>>
    \/ CHAT_IDS = <<>>
    \/ OnlyCommasAndSpaces(TELEGRAM_CHAT_IDS)

\* C3: with the credential missing or the parsed recipient list empty (a
\* recipient string of only commas and whitespace included), no send call is
\* ever made; the call prints the message once and returns.
C3_NoSendUnconfigured ==
    Unconfigured =>
        /\ sent = <<>>
        /\ pc \in {"send", "sent"}
        /\ pc = "send" => console = <<>> /\ ENABLED SendEnter
        /\ pc = "sent" => console = <<[text |-> "Telegram not configured:",
                                       message |-> message]>>

\* A credential, and a recipient string of commas and whitespace.
C3_Witness ==
    /\ pc = "sent"
    /\ TELEGRAM_TOKEN = <<"t">>
    /\ TELEGRAM_CHAT_IDS = <<",", " ", ",">>
    /\ sent = <<>>
    /\ Len(console) = 1

\* The log lines of the failed sends among the first k, in order.
RECURSIVE FailureLines(_)
FailureLines(attempts) ==
    IF attempts = <<>> THEN <<>>
    ELSE (IF Head(attempts).ok THEN <<>>
          ELSE <<[text |-> "Failed to send to", chat_id |-> Head(attempts).chat_id]>>)
         \o FailureLines(Tail(attempts))

\* C4: with the notifier configured, whichever sends fail, the recipients are
\* tried once each in list order: a failure is logged, is not retried, and
\* the later recipients are still tried; the call returns after the last.
C4_OneSendPerRecipient ==
    bot # NoBot =>
        /\ pc \in {"send", "send_loop", "sent"}
        /\ Len(sent) <= Len(CHAT_IDS)
        /\ \A i \in 1..Len(sent) :
              sent[i].chat_id = CHAT_IDS[i] /\ sent[i].text = message
        /\ console = FailureLines(sent)
        /\ pc = "send_loop" => Len(sent) = cid - 1
        /\ pc = "sent" => Len(sent) = Len(CHAT_IDS)
        /\ pc # "sent" => ENABLED NextNotify

\* Three recipients; the sends to the first and to the last fail.
C4_Witness ==
    /\ pc = "sent"
    /\ CHAT_IDS = << <<"1">>, <<"2">>, <<"1">> >>
    /\ Len(sent) = 3
    /\ ~sent[1].ok
    /\ sent[2].ok
    /\ ~sent[3].ok
    /\ Len(console) = 2

-----------------------------------------------------------------------------
(* Claims about run_and_notify, under Spec *)

\* The count a fetch gives the scorer: 0 when its request raised.
Degraded(i, xs) == IF failed[i] THEN 0 ELSE Len(xs)

\* C5: whichever of the four fetches and of the sends fail, run_and_notify
\* does not raise, it ends, and it returns {ticker, score} with the scorer's
\* value for the degraded results: a failed fetch is an absent price or a
\* count of 0.
C5_NeverFatal ==
    /\ pc # "raised"
    /\ pc # "done" => ENABLED Next
    /\ \A i \in 1..Len(failed) :
          failed[i] => CASE i = 1 -> stock_data = None
                         [] i = 2 -> filings = <<>>
                         [] i = 3 -> news = <<>>
                         [] i = 4 -> politician_trades = <<>>
    /\ pc = "done" =>
          /\ DOMAIN result = {"ticker", "score"}
          /\ result.ticker = ticker
          /\ result.score =
                (IF failed[1] THEN 0 ELSE PriceTerm(stock_data))
                + 2 * Degraded(2, filings) + Degraded(3, news)
                + 2 * Degraded(4, politician_trades)

\* Every fetch fails and so do both sends; the run returns a score of 0.
C5_Witness ==
    /\ pc = "done"
    /\ failed = <<TRUE, TRUE, TRUE, TRUE>>
    /\ Len(sent) = 2
    /\ ~sent[1].ok
    /\ ~sent[2].ok
    /\ result = [ticker |-> <<"M", "S", "F", "T">>, score |-> 0]

\* The calls of one run of run_and_notify, in order.
RunCalls ==
    <<"get_stock_price", "get_recent_13f_filings", "get_google_news_rss",
      "get_recent_politician_trades", "score_opportunity",
      "send_telegram_message">>

\* The message text handed to the notifier, wherever it went.
Delivered ==
    IF bot = NoBot THEN {console[i].message : i \in {Len(console)}}
    ELSE {sent[i].text : i \in 1..Len(sent)}

\* C9: in every run the four fetchers are called once each in the order
\* price, 13F filings, news, Form 4 trades; the scorer is applied after the
\* four, to the price result and the three lengths; the notifier is called
\* once, after scoring, with a message of the same score and the same three
\* counts as the returned score was computed from.
C9_CallOrder ==
    /\ Len(calls) <= Len(RunCalls)
    /\ calls = SubSeq(RunCalls, 1, Len(calls))
    /\ pc \in {"run_message", "send", "send_loop", "sent", "done"} =>
          /\ Len(calls) >= 5
          /\ score = PriceTerm(stock_data) + 2 * Len(filings) + Len(news)
                     + 2 * Len(politician_trades)
    /\ pc \in {"send_loop", "sent", "done"} =>
          /\ calls = RunCalls
          /\ message.score = score
          /\ message.f13 = Len(filings)
          /\ message.news = Len(news)
          /\ message.trades = Len(politician_trades)
          /\ Delivered \subseteq {message}
    /\ pc = "done" =>
          /\ result.score = message.score
          /\ result.score = PriceTerm(stock_data) + 2 * message.f13
                            + message.news + 2 * message.trades

\* A run with a price move over the threshold, one filing, one news item and
\* one trade, delivered to both recipients.
C9_Witness ==
    /\ pc = "done"
    /\ calls = RunCalls
    /\ stock_data # None
    /\ Len(filings) = 1
    /\ Len(news) = 1
    /\ Len(politician_trades) = 1
    /\ result.score = 8
    /\ Len(sent) = 2
    /\ sent[1].text.score = 8
    /\ sent[2].text.news = 1

=============================================================================
